---- MODULE Spec2Model ----
(***************************************************************************)
(* A model of the Batcher class of batcher-lib.                            *)
(*                                                                         *)
(* The repository holds two asynchronous revisions of Batcher.flush:       *)
(*   "single"  - the single-active-flush revision (snapshot the buffer,    *)
(*               await the handler, clear(), re-run if a request was       *)
(*               coalesced);                                               *)
(*   "chunked" - the chunked-drain revision (splice a chunk off the queue, *)
(*               await the handler, loop while the queue is non-empty,     *)
(*               queueMicrotask a re-run).                                 *)
(* The variable `variant` fixes, for a whole behaviour, which revision the *)
(* instance runs; every other definition follows the source of that        *)
(* revision.                                                               *)
(*                                                                         *)
(* One step of the model is one synchronous run of JavaScript: a public    *)
(* call made by the user, a timer callback, a queued microtask, or the     *)
(* continuation of the suspended flush() after an await.  User calls may   *)
(* happen between any two steps (also from inside a pending handler);      *)
(* timer callbacks are macrotasks and wait for the queued microtasks.      *)
(*                                                                         *)
(* Items are opaque to the code, so the k-th item added is modelled by the *)
(* number k: the order of addition is the order of the numbers.            *)
(***************************************************************************)
EXTENDS Integers, Sequences, FiniteSets, TLC

(* ------------------------------- bounds -------------------------------- *)

\* Total number of items the producers add in one behaviour.
MaxItems == 3

\* Total number of handler invocations in one behaviour.
MaxCalls == 4

\* Longest array passed to one addMany call.
MaxAddMany == 2

\* Largest batchSize option tried.
MaxBatchSize == 2

\* Chunking runs: the largest batchSize and the largest preloaded buffer.
MaxChunk == 3
MaxPreload == 7

(* ---------------------------- configuration ---------------------------- *)

Variants == {"single", "chunked"}

\* batchSize option; 0 stands for every falsy value (undefined, 0, NaN), which
\* dequeueBatch treats alike.
BatchSizes == 0..MaxBatchSize

\* The constructor stores options.batchSize as given, so any number can be
\* there: the numerators and denominators of the values tried (negative
\* numbers, zero, halves, positive integers).
AnyBatchSizeNum == -1..MaxBatchSize
AnyBatchSizeDen == {1, 2}

\* The onError option: not given, a callback that returns, a callback that throws.
OnErrorModes == {"absent", "returns", "throws"}

Handlers == {"h1"}

VARIABLES
  variant,      \* which revision of flush() the instance runs
  batchSize,    \* options.batchSize (chunked revision only): its numerator
  batchSizeDen, \* options.batchSize: its denominator (1 for an integer)
  onError,      \* options.onError
  queue,        \* this.queue / this.items
  handler,      \* this.handler ("none" = undefined)
  timer,        \* handle: this.timer is set; live: the number of running intervals
  flushing,     \* this.flushing / this.isFlushing
  flushQueued,  \* this.flushQueued / this.pending
  pc,           \* position of the flush() that drains: idle; throwing (in the
                \* handler, which is about to throw); handler (at the await of
                \* invokeHandler); resume (invokeHandler's promise has settled)
  exc,          \* invokeHandler's promise is rejected (onError threw in it)
  rerun,        \* a queueMicrotask(() => this.flush()) is queued
  origin,       \* who called the flush() that is draining: manual, timer, rerun
  awaiting,     \* single: per flush() suspended at await this.flush(), outermost first,
                \* whether an exception of its catch block is propagating
  microtasks,   \* the jobs of the microtask queue, in the order they were queued
  nextItem,     \* history: the number the next added item gets
  addedAt,      \* history: per item, the invocation count and pending state at its add
  calls,        \* history: handler invocations [h, batch, status], in order
  errors,       \* history: the arguments of the onError calls, in order
  flushRejected,\* history: the promise of a flush() call, whoever made it, was rejected
  unhandled,    \* history: a rejection escaped a timer callback or a microtask
  clearCalled,  \* history: clear() was called by the user
  returned      \* the array the latest getBatch() call gave to its caller

vars == <<variant, batchSize, batchSizeDen, onError, queue, handler, timer, flushing, flushQueued,
          pc, exc, rerun, origin, awaiting, microtasks, nextItem, addedAt, calls, errors,
          flushRejected, unhandled, clearCalled, returned>>

config == <<variant, batchSize, batchSizeDen, onError>>
hist   == <<nextItem, addedAt, calls, errors, flushRejected, unhandled, clearCalled>>

(* ------------------------------- helpers ------------------------------- *)

Min(a, b) == IF a < b THEN a ELSE b
Max(a, b) == IF a > b THEN a ELSE b

Take(s, n) == SubSeq(s, 1, Min(Max(n, 0), Len(s)))
Drop(s, n) == SubSeq(s, Min(Max(n, 0), Len(s)) + 1, Len(s))

\* The items nextItem .. nextItem + n - 1, in order.
Fresh(n) == [i \in 1..n |-> nextItem + i - 1]

RECURSIVE Flatten(_)
Flatten(cs) == IF cs = <<>> THEN <<>> ELSE Head(cs).batch \o Flatten(Tail(cs))

Range(s) == {s[i] : i \in DOMAIN s}

\* ToIntegerOrInfinity of the number n / d (d > 0): truncation toward zero.
ToIntegerOrInfinity(n, d) == IF n >= 0 THEN n \div d ELSE -((-n) \div d)

\* The error a handler invocation raises, and the error a throwing onError raises.
HandlerError(n) == [src |-> "handler", call |-> n]
OnErrorError == [src |-> "onError", call |-> 0]

\* A getBatch() that hands out the buffer itself: return this.queue
ShallowCopy_SameArray(q) == [alias |-> TRUE, items |-> q]

\* [...q]: a new array holding the elements of q in order.  alias tells whether
\* the array is the buffer's own array object, items what it held when made.
ShallowCopy(q) == [alias |-> FALSE, items |-> [i \in 1..Len(q) |-> q[i]]]

(* ------------------------------ the state ------------------------------ *)

\* The fields of a new instance, whatever its options.
InitEngine ==
  /\ queue = <<>>
  /\ handler = "none"
  /\ timer = [handle |-> FALSE, live |-> 0]
  /\ flushing = FALSE
  /\ flushQueued = FALSE
  /\ pc = "idle"
  /\ exc = FALSE
  /\ rerun = FALSE
  /\ origin = "manual"
  /\ awaiting = <<>>
  /\ microtasks = <<>>
  /\ nextItem = 1
  /\ addedAt = <<>>
  /\ calls = <<>>
  /\ errors = <<>>
  /\ flushRejected = FALSE
  /\ unhandled = FALSE
  /\ clearCalled = FALSE
  /\ returned = ShallowCopy(<<>>)

\* new Batcher(options), batchSize absent or a positive integer.
Init ==
  /\ variant \in Variants
  /\ batchSize \in (IF variant = "chunked" THEN BatchSizes ELSE {0})
  /\ batchSizeDen = 1
  /\ onError \in OnErrorModes
  /\ InitEngine

(* ------------------------------ producers ------------------------------ *)

\* What the history keeps of one add: how many handler invocations had started,
\* whether the latest one was still pending (its handler running, or its
\* promise not settled yet), and whether a flush was in progress.
AddStamp ==
  [n |-> Len(calls),
   pending |-> calls # <<>> /\ calls[Len(calls)].status = "pending",
   during |-> flushing]

\* this.queue.push(item): the buffer q after the push
Push(q, item) == Append(q, item)

\* An addMany() that puts the new items in front: this.queue.unshift(...items)
PushAll_Unshift(q, items) == items \o q

\* this.queue.push(...items): the buffer q after the push of every element
PushAll(q, items) == q \o items

\* add(item): this.queue.push(item)
Add ==
  /\ nextItem <= MaxItems
  /\ queue' = Push(queue, nextItem)
  /\ nextItem' = nextItem + 1
  /\ addedAt' = Append(addedAt, AddStamp)
  /\ UNCHANGED <<config, returned, handler, timer, flushing, flushQueued, pc, exc, rerun, origin,
                 awaiting, microtasks, calls, errors, flushRejected, unhandled, clearCalled>>

\* addMany(items): this.queue.push(...items), for an array of n fresh items
AddMany(n) ==
  /\ nextItem + n - 1 <= MaxItems
  /\ queue' = PushAll(queue, Fresh(n))
  /\ nextItem' = nextItem + n
  /\ addedAt' = addedAt \o [i \in 1..n |-> AddStamp]
  /\ UNCHANGED <<config, returned, handler, timer, flushing, flushQueued, pc, exc, rerun, origin,
                 awaiting, microtasks, calls, errors, flushRejected, unhandled, clearCalled>>

\* A clear() that also drops the flush request coalesced during a flush.
Clear_DropsRequest ==
  /\ queue' = <<>>
  /\ clearCalled' = TRUE
  /\ flushQueued' = FALSE
  /\ UNCHANGED <<config, returned, handler, timer, flushing, pc, exc, rerun, origin,
                 awaiting, microtasks, nextItem, addedAt, calls, errors, flushRejected, unhandled>>

\* clear(): this.queue = []
Clear ==
  /\ queue' = <<>>
  /\ clearCalled' = TRUE
  /\ UNCHANGED <<config, returned, handler, timer, flushing, flushQueued, pc, exc, rerun, origin,
                 awaiting, microtasks, nextItem, addedAt, calls, errors, flushRejected, unhandled>>

(* ----------------------------- introspection --------------------------- *)

\* What the caller of the latest getBatch() reads in the array it was given.
ReturnedItems == IF returned.alias THEN queue ELSE returned.items

\* getBatch(): return [...this.queue]
GetBatch ==
  /\ returned' = ShallowCopy(queue)
  /\ UNCHANGED <<config, queue, handler, timer, flushing, flushQueued, pc, exc, rerun,
                 origin, awaiting, microtasks, hist>>

\* The caller removes the last element of the array getBatch() gave it
\* (batch.pop()): the write lands in that array object, whichever it is.
CallerPops ==
  /\ ReturnedItems # <<>>
  /\ IF returned.alias
       THEN /\ queue' = SubSeq(queue, 1, Len(queue) - 1)
            /\ UNCHANGED returned
       ELSE /\ returned' = [returned EXCEPT !.items = SubSeq(@, 1, Len(@) - 1)]
            /\ UNCHANGED queue
  /\ UNCHANGED <<config, handler, timer, flushing, flushQueued, pc, exc, rerun, origin,
                 awaiting, microtasks, hist>>

(* ----------------------------- registration ---------------------------- *)

\* A startAutoFlush() that lacks the guard and sets a new interval on every call.
StartAutoFlush_NoGuard(t) == [handle |-> TRUE, live |-> t.live + 1]

\* startAutoFlush(): if (this.timer) return; this.timer = setInterval(...)
\* The timer state after the call, t being the state before it.
StartAutoFlush(t) == IF t.handle THEN t ELSE [handle |-> TRUE, live |-> t.live + 1]

\* A stopAutoFlush() that forgets clearInterval and only unsets this.timer.
StopTimer_NoClearInterval(t) == [handle |-> FALSE, live |-> t.live]

\* if (this.timer) { clearInterval(this.timer); this.timer = undefined }
\* The timer state after the call, t being the state before it.
StopTimer(t) == IF t.handle THEN [handle |-> FALSE, live |-> t.live - 1] ELSE t

\* registerHandler(handler): this.handler = handler; this.startAutoFlush()
RegisterHandler(h) ==
  /\ handler' = h
  /\ timer' = StartAutoFlush(timer)
  /\ UNCHANGED <<config, returned, queue, flushing, flushQueued, pc, exc, rerun, origin, awaiting, microtasks,
                 hist>>

\* A stopAutoFlush() that also discards what the flush in progress has not
\* delivered yet.
StopAutoFlush_Cancels ==
  /\ timer' = StopTimer(timer)
  /\ queue' = <<>>
  /\ UNCHANGED <<config, returned, handler, flushing, flushQueued, pc, exc, rerun, origin,
                 awaiting, microtasks, hist>>

\* stopAutoFlush()
StopAutoFlush ==
  /\ timer' = StopTimer(timer)
  /\ UNCHANGED <<config, returned, queue, handler, flushing, flushQueued, pc, exc, rerun, origin,
                 awaiting, microtasks, hist>>

(* ---------------------------- error handling --------------------------- *)

\* handleError(error): if (this.onError) this.onError(error); else console.error(...)
\* The log of onError calls after handleError(e) was entered with the log errs.
HandleErrorLog(errs, e) == IF onError = "absent" THEN errs ELSE Append(errs, e)

\* Whether handleError throws: only the onError callback can.
HandleErrorThrows == onError = "throws"

(* --------------------------- handler invocation ------------------------ *)

\* What the handler does before invokeHandler's await: it throws synchronously,
\* it returns a value or a promise that has settled already ("settled": what
\* follows the await is queued at once), or it returns a promise that is still
\* pending ("pending": what follows the await is queued when the promise
\* settles, HandlerPromiseSettles).
HandlerSyncOutcomes == {"throws", "settled", "pending"}

\* A job of the microtask queue.  t names the code it runs: "invoke",
\* invokeHandler() after await this.handler?.(batch); "resume", flush() after
\* await this.invokeHandler(...); "rerun", the () => this.flush() of
\* queueMicrotask; "callback", the chunked timer callback after its await
\* this.flush(), rej telling whether the promise is rejected; "outer", a
\* flush() of the single-active revision after its await this.flush().  An "outer" job carries the calls still suspended
\* (chain, outermost first, as in awaiting), whether the promise that was
\* awaited is rejected (rej), and who called the outermost one (origin).
Job(t) == [t |-> t, chain |-> <<>>, rej |-> FALSE, origin |-> "manual"]

\* An invokeHandler() that calls the handler registered first, kept from the
\* first registration, instead of reading this.handler at the invocation.
InvokeHandler_FirstRegistered(batch, errs, jobs) ==
  /\ Len(calls) < MaxCalls
  /\ \E r \in HandlerSyncOutcomes :
       /\ calls' = Append(calls, [h |-> "h1", batch |-> batch, status |-> "pending"])
       /\ errors' = errs
       /\ exc' = FALSE
       /\ pc' = IF r = "throws" THEN "throwing" ELSE "handler"
       /\ microtasks' = IF r = "settled" THEN Append(jobs, Job("invoke")) ELSE jobs

\* invokeHandler(batch): try { await this.handler?.(batch) } catch (error) {
\* this.handleError(error) }, up to the call of the handler.  errs is the log
\* of onError calls the step has reached, jobs the microtask queue it has
\* reached, r what the call is going to do.  A handler that returns leaves
\* invokeHandler suspended at its await.  A handler that is going to throw is
\* still running after this step (pc = "throwing"): what it calls on the
\* batcher before it throws are steps of their own, and nothing else runs
\* until it has thrown (HandlerThrows).
InvokeHandler(batch, errs, jobs) ==
  /\ Len(calls) < MaxCalls
  /\ \E r \in HandlerSyncOutcomes :
       /\ calls' = Append(calls, [h |-> handler, batch |-> batch, status |-> "pending"])
       /\ errors' = errs
       /\ exc' = FALSE
       /\ pc' = IF r = "throws" THEN "throwing" ELSE "handler"
       /\ microtasks' = IF r = "settled" THEN Append(jobs, Job("invoke")) ELSE jobs

\* The running handler throws: invokeHandler catches the exception at once,
\* catch (error) { this.handleError(error) }, and its promise settles (rejected
\* exactly when handleError threw), which queues the continuation of the
\* flush() awaiting it.
HandlerThrows ==
  /\ pc = "throwing"
  /\ calls' = [calls EXCEPT ![Len(calls)].status = "failed"]
  /\ errors' = HandleErrorLog(errors, HandlerError(Len(calls)))
  /\ exc' = HandleErrorThrows
  /\ pc' = "resume"
  /\ microtasks' = Append(microtasks, Job("resume"))
  /\ UNCHANGED <<config, returned, queue, handler, timer, flushing, flushQueued, rerun, origin,
                 awaiting, nextItem, addedAt, flushRejected, unhandled, clearCalled>>

\* An invokeHandler() whose error path also stops the auto-flush timer.
HandlerSettles_FailureStopsTimer(ok) ==
  /\ pc = "handler"
  /\ microtasks # <<>> /\ Head(microtasks).t = "invoke"
  /\ calls' = [calls EXCEPT ![Len(calls)].status = IF ok THEN "ok" ELSE "failed"]
  /\ errors' = IF ok THEN errors ELSE HandleErrorLog(errors, HandlerError(Len(calls)))
  /\ exc' = (~ok /\ HandleErrorThrows)
  /\ pc' = "resume"
  /\ microtasks' = Append(Tail(microtasks), Job("resume"))
  /\ timer' = IF ok THEN timer ELSE [handle |-> FALSE, live |-> 0]
  /\ UNCHANGED <<config, returned, queue, handler, flushing, flushQueued, rerun, origin,
                 awaiting, nextItem, addedAt, flushRejected, unhandled, clearCalled>>

\* invokeHandler resumes after its await, in its turn among the queued jobs:
\* what it awaited is fulfilled (ok), or rejected and routed to handleError.
\* Its own promise settles, which queues the continuation of the flush()
\* awaiting it.
HandlerSettles(ok) ==
  /\ pc = "handler"
  /\ microtasks # <<>> /\ Head(microtasks).t = "invoke"
  /\ calls' = [calls EXCEPT ![Len(calls)].status = IF ok THEN "ok" ELSE "failed"]
  /\ errors' = IF ok THEN errors ELSE HandleErrorLog(errors, HandlerError(Len(calls)))
  /\ exc' = (~ok /\ HandleErrorThrows)
  /\ pc' = "resume"
  /\ microtasks' = Append(Tail(microtasks), Job("resume"))
  /\ UNCHANGED <<config, returned, queue, handler, timer, flushing, flushQueued, rerun, origin,
                 awaiting, nextItem, addedAt, flushRejected, unhandled, clearCalled>>

\* The pending promise the handler returned settles, by whatever code holds
\* it: what follows await this.handler?.(batch) is queued.
HandlerPromiseSettles ==
  /\ pc = "handler"
  /\ \A i \in DOMAIN microtasks : microtasks[i].t # "invoke"
  /\ microtasks' = Append(microtasks, Job("invoke"))
  /\ UNCHANGED <<config, returned, queue, handler, timer, flushing, flushQueued, pc, exc, rerun,
                 origin, awaiting, hist>>

(* ------------------------------- flush --------------------------------- *)

\* A flush() that lacks the no-handler check.
NoHandler_Never == FALSE

\* if (!this.handler) { console.warn(...); return }
NoHandler == handler = "none"

\* A flush() that lacks the in-progress check.
FlushInProgress_Never == FALSE

\* A flush() whose in-progress check coalesces one request only and lets the
\* next one through: if (this.flushing && !this.flushQueued)
FlushInProgress_FirstRequestOnly == flushing /\ ~flushQueued

\* A flush() whose in-progress check lets a request through when items wait.
FlushInProgress_UnlessItemsWait == flushing /\ queue = <<>>

\* if (this.flushing) { this.flushQueued = true; return }
FlushInProgress == flushing

\* A flush() that lacks the empty-buffer check.
NothingToProcess_Never == FALSE

\* if (this.queue.length === 0) return / if (currentBatch.length === 0) return
NothingToProcess == queue = <<>>

\* A dequeueBatch() that ignores batchSize and always takes the whole queue.
DequeueBatch_Whole(q, k) == [batch |-> q, rest |-> <<>>]

\* A dequeueBatch() whose splice count is off by one: q.splice(0, batchSize + 1).
DequeueBatch_OffByOne(q, k) ==
  IF k = 0 THEN [batch |-> q, rest |-> <<>>]
           ELSE [batch |-> Take(q, k + 1), rest |-> Drop(q, k + 1)]

\* dequeueBatch() on queue q under batchSize k (its numerator): the batch splice
\* returns and what it leaves in the queue:
\* if (!this.batchSize) q.splice(0, q.length) else q.splice(0, this.batchSize)
\* splice converts its count with ToIntegerOrInfinity and clamps it to 0..length
\* (the clamping is Take's and Drop's).
DequeueBatch(q, k) ==
  IF k = 0 THEN [batch |-> q, rest |-> <<>>]
           ELSE [batch |-> Take(q, ToIntegerOrInfinity(k, batchSizeDen)),
                 rest |-> Drop(q, ToIntegerOrInfinity(k, batchSizeDen))]

\* A finally block that queues the re-run but forgets to reset the request flag.
FlushQueuedAfterDrain_Kept(fq) == fq

\* finally { ... this.flushQueued = false / this.pending = false ... }: the value
\* the request flag has when the drain ends, fq being its value before (the
\* assignment runs when the flag is set; otherwise the flag is false already).
FlushQueuedAfterDrain(fq) == FALSE

\* A flush() that resets the flag at the end of the try block instead of in
\* finally: the flag stays set when an exception leaves the catch block.
FlushingAfterDrain_TryOnly(thrown) == thrown

\* finally { this.flushing = false; ... }: the value the flag gets when the drain
\* ends, thrown telling whether an exception is propagating out of the catch block.
FlushingAfterDrain(thrown) == FALSE

\* The promise of a flush() that nothing of the batcher awaits but, at most,
\* its caller settles; rej: it is rejected, jobs: the microtask queue so far.
\* A manual caller receives the promise.  The chunked timer callback is
\* try { await this.flush() } catch (err) { this.handleError(err) }: what
\* follows its await is queued when the promise settles.  The single timer
\* callback is void this.flush() and the microtask is () => this.flush(): a
\* rejection nobody catches is unhandled.  who is the caller.
Settle(rej, who, jobs) ==
  /\ flushRejected' = (flushRejected \/ rej)
  /\ unhandled' = (unhandled \/ (rej /\ CASE who = "manual" -> FALSE
                                          [] who = "rerun" -> TRUE
                                          [] who = "timer" -> variant = "single"))
  /\ microtasks' = IF who = "timer" /\ variant = "chunked"
                     THEN Append(jobs, [Job("callback") EXCEPT !.rej = rej]) ELSE jobs

\* flush() of the chunked revision, from its first line to its first await, or
\* to its return when it returns at once (its promise is fulfilled then); jobs
\* is the microtask queue when it is called.
FlushChunked(orig, jobs) ==
  /\ variant = "chunked"
  /\ IF NoHandler
       THEN /\ Settle(FALSE, orig, jobs)
            /\ UNCHANGED <<queue, flushing, flushQueued, pc, exc, origin, calls, errors>>
       ELSE IF FlushInProgress
         THEN /\ flushQueued' = TRUE
              /\ Settle(FALSE, orig, jobs)
              /\ UNCHANGED <<queue, flushing, pc, exc, origin, calls, errors>>
         ELSE IF NothingToProcess
           THEN /\ Settle(FALSE, orig, jobs)
                /\ UNCHANGED <<queue, flushing, flushQueued, pc, exc, origin, calls, errors>>
           ELSE /\ flushing' = TRUE
                /\ origin' = orig
                /\ queue' = DequeueBatch(queue, batchSize).rest
                /\ InvokeHandler(DequeueBatch(queue, batchSize).batch, errors, jobs)
                /\ UNCHANGED <<flushQueued, flushRejected, unhandled>>
  /\ UNCHANGED <<config, returned, handler, timer, awaiting, nextItem, addedAt, clearCalled>>

\* flush() of the chunked revision resumes after await this.invokeHandler(batch):
\* the next iteration of the while loop, or catch and finally.  finally queues
\* the () => this.flush() microtask before the promise of flush() settles.
FlushResumeChunked ==
  /\ variant = "chunked"
  /\ pc = "resume"
  /\ microtasks # <<>> /\ Head(microtasks).t = "resume"
  /\ IF ~exc /\ queue # <<>>
       THEN /\ queue' = DequeueBatch(queue, batchSize).rest
            /\ InvokeHandler(DequeueBatch(queue, batchSize).batch, errors, Tail(microtasks))
            /\ UNCHANGED <<flushing, flushQueued, rerun, flushRejected, unhandled>>
       ELSE /\ flushing' = FlushingAfterDrain(exc /\ HandleErrorThrows)
            /\ IF flushQueued \/ queue # <<>>
                 THEN flushQueued' = FlushQueuedAfterDrain(flushQueued) /\ rerun' = TRUE
                 ELSE UNCHANGED <<flushQueued, rerun>>
            /\ pc' = "idle"
            /\ exc' = FALSE
            /\ errors' = IF exc THEN HandleErrorLog(errors, OnErrorError) ELSE errors
            /\ Settle(exc /\ HandleErrorThrows, origin,
                      IF flushQueued \/ queue # <<>>
                        THEN Append(Tail(microtasks), Job("rerun"))
                        ELSE Tail(microtasks))
            /\ UNCHANGED <<queue, calls>>
  /\ UNCHANGED <<config, returned, handler, timer, origin, awaiting, nextItem, addedAt,
                 clearCalled>>

\* The microtask queued by the chunked finally block: () => this.flush()
RunMicrotask ==
  /\ rerun
  /\ pc # "throwing"
  /\ microtasks # <<>> /\ Head(microtasks).t = "rerun"
  /\ rerun' = FALSE
  /\ FlushChunked("rerun", Tail(microtasks))

\* The chunked timer callback resumes after its await this.flush(): it ends,
\* or, the promise being rejected, catch (err) { this.handleError(err) }.  An
\* exception of handleError rejects the promise of the callback, which nobody
\* holds.
TimerCallbackResumes ==
  /\ variant = "chunked"
  /\ pc # "throwing"
  /\ microtasks # <<>> /\ Head(microtasks).t = "callback"
  /\ microtasks' = Tail(microtasks)
  /\ errors' = IF Head(microtasks).rej THEN HandleErrorLog(errors, OnErrorError) ELSE errors
  /\ unhandled' = (unhandled \/ (Head(microtasks).rej /\ HandleErrorThrows))
  /\ UNCHANGED <<config, returned, queue, handler, timer, flushing, flushQueued, pc, exc, rerun,
                 origin, awaiting, nextItem, addedAt, calls, flushRejected, clearCalled>>

\* flush() of the single-active revision, from its first line to its first await;
\* the batch is const currentBatch = this.getBatch().
FlushSingle(orig) ==
  /\ variant = "single"
  /\ IF FlushInProgress
       THEN /\ flushQueued' = TRUE
            /\ UNCHANGED <<flushing, pc, exc, origin, calls, errors, microtasks>>
       ELSE IF NoHandler \/ NothingToProcess
         THEN UNCHANGED <<flushing, flushQueued, pc, exc, origin, calls, errors, microtasks>>
         ELSE /\ flushing' = TRUE
              /\ origin' = orig
              /\ InvokeHandler(ShallowCopy(queue).items, errors, microtasks)
              /\ UNCHANGED flushQueued
  /\ UNCHANGED <<config, returned, queue, handler, timer, awaiting, nextItem, addedAt,
                 flushRejected, unhandled, clearCalled>>

\* The promise of a flush() of the single-active revision settles, rej telling
\* whether it is rejected, while the calls of chain are suspended at their
\* await this.flush(): the innermost of them is queued to resume.  With no
\* such call the promise is the one who (the caller) got.
SettleSingle(rej, chain, who, jobs) ==
  IF chain = <<>>
    THEN Settle(rej, who, jobs)
    ELSE /\ flushRejected' = (flushRejected \/ rej)
         /\ microtasks' = Append(jobs, [t |-> "outer", chain |-> chain, rej |-> rej,
                                        origin |-> who])
         /\ UNCHANGED unhandled

\* flush() of the single-active revision resumes after await
\* this.invokeHandler(currentBatch): this.clear() when the await fulfilled, else
\* catch (err) { this.handleError(err) }; then finally { this.isFlushing = false;
\* if (this.pending) { this.pending = false; await this.flush() } }.  The inner
\* flush() runs in the same step up to its own await, or returns at once; in
\* both cases this call is suspended at its await (it joins awaiting), an
\* exception raised in its catch block propagating once it resumes.
FlushResumeSingle ==
  /\ variant = "single"
  /\ pc = "resume"
  /\ microtasks # <<>> /\ Head(microtasks).t = "resume"
  /\ LET q1 == IF exc THEN queue ELSE <<>>
         errs1 == IF exc THEN HandleErrorLog(errors, OnErrorError) ELSE errors
         thrown == exc /\ HandleErrorThrows
     IN /\ queue' = q1
        /\ flushQueued' = FlushQueuedAfterDrain(flushQueued)
        /\ IF flushQueued /\ ~NoHandler /\ q1 # <<>>
             THEN /\ flushing' = TRUE
                  /\ awaiting' = Append(awaiting, thrown)
                  /\ InvokeHandler(q1, errs1, Tail(microtasks))
                  /\ UNCHANGED <<flushRejected, unhandled>>
             ELSE /\ flushing' = FlushingAfterDrain(thrown)
                  /\ awaiting' = <<>>
                  /\ pc' = "idle"
                  /\ exc' = FALSE
                  /\ errors' = errs1
                  /\ IF flushQueued
                       THEN SettleSingle(FALSE, Append(awaiting, thrown), origin,
                                         Tail(microtasks))
                       ELSE SettleSingle(thrown, awaiting, origin, Tail(microtasks))
                  /\ UNCHANGED calls
  /\ UNCHANGED <<config, returned, handler, timer, rerun, origin, nextItem, addedAt, clearCalled>>

\* A flush() of the single-active revision resumes after the await this.flush()
\* of its finally block and ends: its promise is rejected when the promise it
\* awaited was, or when an exception of its catch block is propagating.
OuterFlushResumes ==
  /\ variant = "single"
  /\ pc # "throwing"
  /\ microtasks # <<>> /\ Head(microtasks).t = "outer"
  /\ LET job == Head(microtasks)
         n == Len(job.chain)
     IN SettleSingle(job.rej \/ job.chain[n], SubSeq(job.chain, 1, n - 1), job.origin,
                     Tail(microtasks))
  /\ UNCHANGED <<config, returned, queue, handler, timer, flushing, flushQueued, pc, exc, rerun,
                 origin, awaiting, nextItem, addedAt, calls, errors, clearCalled>>

\* A call of flush() by the user.
Flush ==
  /\ UNCHANGED rerun
  /\ (FlushChunked("manual", microtasks) \/ FlushSingle("manual"))

\* The setInterval callback: a macrotask, run when no microtask is queued and
\* no handler is running.
Tick ==
  /\ timer.live > 0
  /\ microtasks = <<>>
  /\ pc # "throwing"
  /\ UNCHANGED rerun
  /\ (FlushChunked("timer", microtasks) \/ FlushSingle("timer"))

(* --------------------------- specification ----------------------------- *)

Next ==
  \/ Add
  \/ \E n \in 0..MaxAddMany : AddMany(n)
  \/ Clear
  \/ \E h \in Handlers : RegisterHandler(h)
  \/ StopAutoFlush
  \/ Flush
  \/ Tick
  \/ HandlerThrows
  \/ HandlerPromiseSettles
  \/ \E ok \in BOOLEAN : HandlerSettles(ok)
  \/ FlushResumeChunked
  \/ FlushResumeSingle
  \/ RunMicrotask
  \/ TimerCallbackResumes
  \/ OuterFlushResumes

Spec == Init /\ [][Next]_vars

\* The instances whose onError callback, when given, returns normally.
InitReturning == Init /\ onError # "throws"

SpecReturning == InitReturning /\ [][Next]_vars

\* Chunking runs: the chunked revision with batchSize k >= 1, a handler
\* registered (which started the timer) after n items were added, n small
\* enough for the drain to stay within MaxCalls invocations, and no producer
\* afterwards.
InitChunking ==
  /\ variant = "chunked"
  /\ batchSize \in 1..MaxChunk
  /\ batchSizeDen = 1
  /\ onError \in OnErrorModes
  /\ \E n \in 0..MaxPreload :
       /\ n <= batchSize * MaxCalls
       /\ queue = [i \in 1..n |-> i]
       /\ nextItem = n + 1
       /\ addedAt = [i \in 1..n |-> [n |-> 0, pending |-> FALSE, during |-> FALSE]]
  /\ handler = "h1"
  /\ timer = [handle |-> TRUE, live |-> 1]
  /\ flushing = FALSE
  /\ flushQueued = FALSE
  /\ pc = "idle"
  /\ exc = FALSE
  /\ rerun = FALSE
  /\ origin = "manual"
  /\ awaiting = <<>>
  /\ microtasks = <<>>
  /\ calls = <<>>
  /\ errors = <<>>
  /\ flushRejected = FALSE
  /\ unhandled = FALSE
  /\ clearCalled = FALSE
  /\ returned = ShallowCopy(<<>>)

NextChunking ==
  \/ UNCHANGED rerun /\ FlushChunked("manual", microtasks)
  \/ /\ timer.live > 0 /\ microtasks = <<>> /\ pc # "throwing"
     /\ UNCHANGED rerun /\ FlushChunked("timer", microtasks)
  \/ HandlerThrows
  \/ HandlerPromiseSettles
  \/ \E ok \in BOOLEAN : HandlerSettles(ok)
  \/ FlushResumeChunked
  \/ RunMicrotask
  \/ TimerCallbackResumes

SpecChunking == InitChunking /\ [][NextChunking]_vars

\* Runs with a second registration: registerHandler(h2) replaces the handler h1
\* (instances with no batchSize whose onError callback returns).
InitReplace == Init /\ onError = "returns" /\ batchSize = 0

NextReplace ==
  \/ Next
  \/ handler = "h1" /\ RegisterHandler("h2")

SpecReplace == InitReplace /\ [][NextReplace]_vars

\* Runs with introspection: the caller may call getBatch() at any point and
\* write to the array it was given (instances with no batchSize and no onError).
InitInspect == Init /\ onError = "absent" /\ batchSize = 0

NextInspect ==
  \/ Next
  \/ GetBatch
  \/ CallerPops

SpecInspect == InitInspect /\ [][NextInspect]_vars

\* Runs with any batchSize the constructor accepts (it validates nothing; the
\* single-active revision has no such option).
InitAnyBatchSize ==
  /\ variant \in Variants
  /\ batchSize \in (IF variant = "chunked" THEN AnyBatchSizeNum ELSE {0})
  /\ batchSizeDen \in (IF variant = "chunked" THEN AnyBatchSizeDen ELSE {1})
  /\ onError \in OnErrorModes
  /\ InitEngine

SpecAnyBatchSize == InitAnyBatchSize /\ [][Next]_vars

\* The event loop runs every queued microtask and every continuation of an
\* await whose promise has settled; the handler's promise is assumed to settle.
Fairness ==
  /\ WF_vars(FlushResumeChunked)
  /\ WF_vars(FlushResumeSingle)
  /\ WF_vars(RunMicrotask)
  /\ WF_vars(TimerCallbackResumes)
  /\ WF_vars(OuterFlushResumes)
  /\ WF_vars(HandlerThrows)
  /\ WF_vars(HandlerPromiseSettles)
  /\ WF_vars(\E ok \in BOOLEAN : HandlerSettles(ok))

FairSpec == Init /\ [][Next]_vars /\ Fairness

TypeOK ==
  /\ variant \in Variants
  /\ batchSize \in BatchSizes
  /\ batchSizeDen = 1
  /\ onError \in OnErrorModes
  /\ queue \in Seq(1..MaxItems)
  /\ handler \in Handlers \cup {"none"}
  /\ timer \in [handle : BOOLEAN, live : 0..1]
  /\ flushing \in BOOLEAN /\ flushQueued \in BOOLEAN
  /\ pc \in {"idle", "throwing", "handler", "resume"}
  /\ (flushing <=> pc # "idle")
  /\ exc \in BOOLEAN /\ rerun \in BOOLEAN
  /\ awaiting \in Seq(BOOLEAN)
  /\ \A i \in DOMAIN microtasks : microtasks[i].t \in {"invoke", "resume", "rerun", "callback", "outer"}
  /\ (pc = "resume" <=> \E i \in DOMAIN microtasks : microtasks[i].t = "resume")
  /\ (rerun <=> \E i \in DOMAIN microtasks : microtasks[i].t = "rerun")
  /\ origin \in {"manual", "timer", "rerun"}
  /\ nextItem \in 1..MaxItems + 1
  /\ Len(addedAt) = nextItem - 1
  /\ Len(calls) <= MaxCalls
  /\ returned \in [alias : {FALSE}, items : Seq(1..MaxItems)]

(* ------------------------------ observers ------------------------------ *)

\* The items passed to the handler, over all invocations, in invocation order.
Delivered == Flatten(calls)

\* The invocations whose promise has not settled.
PendingCalls == {n \in DOMAIN calls : calls[n].status = "pending"}

\* No flush() is draining and no re-run is queued.  The jobs that may still be
\* queued, the catch block of a timer callback and the end of a flush() that
\* awaited another, invoke nothing and change no field of the instance.
Quiescent == pc = "idle" /\ ~rerun

(* ------------------------------- claims -------------------------------- *)

\* C1 (as claimed): without a clear() call, the concatenation of the batches
\* passed to the handler, in invocation order, is a prefix of the items in the
\* order they were added: the i-th delivered item is the i-th added item.
C1_DeliveredIsPrefixOfAdded ==
  ~clearCalled => \A i \in DOMAIN Delivered : Delivered[i] = i

\* C1, chunked revision only: the property holds there.
C1_ChunkedDeliveredIsPrefix ==
  variant = "chunked" => C1_DeliveredIsPrefixOfAdded

\* C2 (as claimed): without a clear() call, an item added while a handler
\* invocation was pending is, in every later state, still in the buffer or in the
\* batch of an invocation that started after the add.
C2_NoItemLost ==
  ~clearCalled =>
    \A i \in 1..(nextItem - 1) :
      addedAt[i].pending =>
        \/ i \in Range(queue)
        \/ \E n \in DOMAIN calls : n > addedAt[i].n /\ i \in Range(calls[n].batch)

\* C2, chunked revision only: the property holds there.
C2_ChunkedNoItemLost ==
  variant = "chunked" => C2_NoItemLost

\* C3: single-flight: at most one handler invocation is pending in every
\* reachable state, so no invocation starts before the earlier ones completed.
C3_SingleFlight == Cardinality(PendingCalls) <= 1

\* C3 witness: a second invocation is pending after the first completed, and a
\* flush request that arrived meanwhile was coalesced instead of starting a third.
C3_Witness ==
  /\ Len(calls) = 2
  /\ calls[1].status # "pending"
  /\ calls[2].status = "pending"
  /\ flushQueued

\* C4 scenario: exactly the items 1 and 2 were added, the first invocation got
\* <<1>>, item 2 was added while that invocation was pending, the invocation
\* resolved, and clear() was not called.
C4_Scenario ==
  /\ nextItem = 3
  /\ ~clearCalled
  /\ Len(calls) >= 1
  /\ calls[1].batch = <<1>>
  /\ calls[1].status = "ok"
  /\ addedAt[2].n = 1
  /\ addedAt[2].pending

\* C4 (as claimed): in that scenario the handler is invoked exactly once more,
\* with exactly <<2>>: there are never more than two invocations, the second one
\* got <<2>>, and once the engine is at rest the second invocation has happened.
C4_ConcurrentArrival ==
  C4_Scenario =>
    /\ Len(calls) <= 2
    /\ Len(calls) = 2 => calls[2].batch = <<2>>
    /\ Quiescent => Len(calls) = 2

\* C4, chunked revision only: the property holds there.
C4_ChunkedConcurrentArrival ==
  variant = "chunked" => C4_ConcurrentArrival

\* C5 (as claimed, in the form a finite run refutes): with a handler registered,
\* the timer running and no clear() call, when the engine is at rest with an
\* empty buffer - so that nothing is left that a later tick could deliver -
\* every item added has been passed to the handler.
C5_AtRestAllDelivered ==
  (handler # "none" /\ timer.live > 0 /\ ~clearCalled /\ Quiescent /\ queue = <<>>)
    => \A i \in 1..(nextItem - 1) : i \in Range(Delivered)

\* C5, chunked revision only: the property holds there.
C5_ChunkedAtRestAllDelivered ==
  variant = "chunked" => C5_AtRestAllDelivered

\* C6 (as claimed): no promise returned by flush() is ever rejected, whoever
\* called it (the user, the timer callback, the queued microtask).
C6_FlushNeverRejects == ~flushRejected

\* C6, for onError callbacks that return: the property holds there.
C6_ReturningFlushNeverRejects ==
  onError # "throws" => (~flushRejected /\ ~unhandled)

\* The errors of the failed invocations, in invocation order.
FailedErrors ==
  LET failed == SelectSeq([n \in 1..Len(calls) |-> n],
                          LAMBDA n : calls[n].status = "failed")
  IN [j \in 1..Len(failed) |-> HandlerError(failed[j])]

\* C7 (as claimed): with onError configured, the onError calls are exactly one
\* per failed invocation, each with the error that invocation raised, and none
\* for an invocation that succeeded.
C7_OnErrorOncePerFailure ==
  onError # "absent" => errors = FailedErrors

\* C7, for onError callbacks that return: the property holds there.
C7_ReturningOnErrorOncePerFailure ==
  onError = "returns" => errors = FailedErrors

\* Invocation n has just completed with a failure and the drain is suspended.
FailedAt(n) == Len(calls) = n /\ calls[n].status = "failed" /\ flushing

\* C8, first half: after a handler invocation fails, the flushing flag returns
\* to false (in the single-active revision the finally block may start the
\* coalesced re-run in the same synchronous run that reset the flag, which shows
\* as a further invocation).
C8_FlagReturnsToFalse ==
  \A n \in 1..(MaxCalls - 1) :
    FailedAt(n) ~> (~flushing \/ (variant = "single" /\ Len(calls) > n))

\* C8, second half: once an invocation has failed, a flush() call or timer tick
\* that finds the engine idle with items in the buffer invokes the handler with them.
C8_LaterFlushDelivers ==
  [][ ( /\ \E n \in DOMAIN calls : calls[n].status = "failed"
        /\ ~flushing /\ handler # "none" /\ queue # <<>>
        /\ (Flush \/ Tick) )
      => ( /\ Len(calls') = Len(calls) + 1
           /\ calls'[Len(calls')].batch = DequeueBatch(queue, batchSize).batch
           /\ calls'[Len(calls')].batch # <<>> ) ]_vars

\* C8: a handler failure never leaves the engine stuck in Flushing.
C8_NotStuckAfterFailure == C8_FlagReturnsToFalse /\ C8_LaterFlushDelivers

\* C8 witness: the first invocation failed, a later invocation received an item
\* added after that one had started, and the engine is idle again.
C8_Witness ==
  /\ Len(calls) >= 2
  /\ calls[1].status = "failed"
  /\ \E i \in Range(calls[Len(calls)].batch) : addedAt[i].n >= 1
  /\ ~flushing

\* The j-th chunk of the items 1..n under chunk size k.
Chunk(n, k, j) == [i \in 1..Min(k, n - (j - 1) * k) |-> (j - 1) * k + i]

\* C9: with batchSize k >= 1 and N buffered items, and no item added, the
\* handler invocations are the consecutive chunks of the buffer: invocation j
\* gets items (j-1)k+1 .. min(jk, N), never more than ceil(N/k) invocations
\* happen, and once the engine is at rest after a flush exactly ceil(N/k)
\* happened, whose batches concatenated are the buffer.
C9_Chunking ==
  LET n == nextItem - 1
      k == batchSize
      want == (n + k - 1) \div k
  IN /\ Len(calls) <= want
     /\ \A j \in DOMAIN calls : calls[j].batch = Chunk(n, k, j)
     /\ (Quiescent /\ queue = <<>>) =>
          (Len(calls) = want /\ Delivered = [i \in 1..n |-> i])

\* C9 witness: k = 3 and 7 items gave <<1,2,3>>, <<4,5,6>>, <<7>>.
C9_Witness ==
  /\ batchSize = 3
  /\ Quiescent
  /\ Len(calls) = 3
  /\ calls[1].batch = <<1, 2, 3>>
  /\ calls[2].batch = <<4, 5, 6>>
  /\ calls[3].batch = <<7>>

\* C10: with batchSize = k configured, no handler invocation receives more than
\* k items.
C10_BatchAtMostBatchSize ==
  batchSize >= 1 => \A j \in DOMAIN calls : Len(calls[j].batch) <= batchSize

\* C10 witness: under batchSize 2 an invocation received a full chunk and a later
\* one an item that was added while an invocation was pending, after a coalesced
\* request was re-run.
C10_Witness ==
  /\ batchSize = 2
  /\ Len(calls) >= 2
  /\ Len(calls[1].batch) = 2
  /\ \E i \in Range(calls[Len(calls)].batch) : addedAt[i].pending
  /\ rerun

(* --------------------------- auto-flush claims ------------------------- *)

\* The items added since the previous flush ended: those added when no flush was
\* in progress and no handler invocation has started since.
AddedSincePreviousFlush ==
  SelectSeq([i \in 1..(nextItem - 1) |-> i],
            LAMBDA i : addedAt[i].n = Len(calls) /\ ~addedAt[i].during)

\* C11 (as claimed): with a handler registered, no batchSize, no flush in
\* progress and no clear() call, a timer tick that finds a non-empty buffer
\* starts exactly one handler invocation, whose batch is exactly the items added
\* since the previous flush, in order; a tick that finds an empty buffer starts
\* none; and when a drain ends none of the items passed to the handler is in the
\* buffer.
C11_TickDeliversNewItems ==
  [][ /\ ( Tick /\ handler # "none" /\ batchSize = 0 /\ ~flushing /\ ~clearCalled )
         => IF queue # <<>>
              THEN /\ Len(calls') = Len(calls) + 1
                   /\ calls'[Len(calls')].batch = AddedSincePreviousFlush
              ELSE calls' = calls
      /\ ( flushing /\ ~flushing' /\ batchSize = 0 )
         => Range(queue') \cap Range(Flatten(calls')) = {} ]_vars

\* C11, for onError callbacks that return: the property holds there.
C11_ReturningTickDeliversNewItems ==
  [][ onError # "throws" =>
      /\ ( Tick /\ handler # "none" /\ batchSize = 0 /\ ~flushing /\ ~clearCalled )
         => IF queue # <<>>
              THEN /\ Len(calls') = Len(calls) + 1
                   /\ calls'[Len(calls')].batch = AddedSincePreviousFlush
              ELSE calls' = calls
      /\ ( flushing /\ ~flushing' /\ batchSize = 0 )
         => Range(queue') \cap Range(Flatten(calls')) = {} ]_vars

\* C12 (as claimed): with a handler registered and no clear() call, the promise
\* returned by flush() fulfils only after the items it covers were passed to the
\* handler.  A flush() call issued while another flush is in progress returns a
\* fulfilled promise at once: every item in the buffer at the call has then been
\* passed to the handler.  A flush() call that drained fulfils when the drain
\* ends: every item that arrived during a drain has then been passed to the
\* handler.
C12_FlushFulfilsAfterDelivery ==
  [][ /\ ( Flush /\ handler # "none" /\ flushing /\ ~clearCalled )
         => \A i \in Range(queue) : i \in Range(Flatten(calls'))
      /\ ( /\ flushing /\ ~flushing' /\ origin = "manual"
           /\ ~flushRejected' /\ ~clearCalled /\ handler # "none" )
         => \A i \in 1..(nextItem - 1) :
              addedAt[i].during => i \in Range(Flatten(calls')) ]_vars

\* C12, the part that holds in the chunked revision: the promise of a flush()
\* call that drained fulfils only after every item that arrived during a drain
\* was passed to the handler.
C12_ChunkedDrainFulfilsAfterDelivery ==
  [][ ( /\ variant = "chunked"
        /\ flushing /\ ~flushing' /\ origin = "manual"
        /\ ~flushRejected' /\ ~clearCalled /\ handler # "none" )
      => \A i \in 1..(nextItem - 1) :
           addedAt[i].during => i \in Range(Flatten(calls')) ]_vars

\* C13 (as claimed): flush() with a handler registered and an empty buffer is
\* a no-op: no invocation is recorded, the engine does not enter Flushing, and
\* buffer, flags and timer are unchanged.
C13_EmptyFlushIsNoOpAsClaimed ==
  [][ ( Flush /\ handler # "none" /\ queue = <<>> )
      => UNCHANGED <<calls, flushing, flushQueued, queue, timer, pc, rerun>> ]_vars

\* C13 (amended): with a handler registered, a flush request (a flush() call or
\* a timer tick) that finds the buffer empty invokes nothing and leaves buffer,
\* flushing and timer unchanged.  With no flush in progress it changes no flag
\* either and queues no re-run; with a flush in progress it sets the
\* pending-request flag and changes nothing else.  No invocation ever gets an
\* empty batch.
C13_EmptyFlushIsNoOp ==
  [][ /\ ( (Flush \/ Tick) /\ handler # "none" /\ queue = <<>> )
         => /\ UNCHANGED <<calls, flushing, queue, timer, pc, rerun>>
            /\ flushQueued' = (flushQueued \/ flushing)
      /\ \A n \in DOMAIN calls' : calls'[n].batch # <<>> ]_vars

\* C13 witness: a handler is registered, earlier invocations have emptied the
\* buffer, the engine is idle and the timer runs, so that every flush() call and
\* tick finds the buffer empty.
C13_Witness ==
  /\ handler # "none"
  /\ queue = <<>>
  /\ Quiescent
  /\ timer.live > 0
  /\ Len(calls) = 2
  /\ calls[2].status = "ok"

\* C14: while no handler is registered, nothing a flush() call could have done
\* has happened: the buffer holds exactly the items added, in order (without a
\* clear() call), flushing and the pending-request flag are false, no timer runs
\* and nothing was invoked or reported; and once the first drain after
\* registerHandler has ended, the items added before any invocation have all been
\* passed to the handler.
C14_NoHandlerFlushIsNoOp ==
  /\ handler = "none" =>
       /\ ~clearCalled => queue = [i \in 1..(nextItem - 1) |-> i]
       /\ ~flushing /\ ~flushQueued /\ ~rerun
       /\ timer = [handle |-> FALSE, live |-> 0]
       /\ calls = <<>> /\ errors = <<>>
       /\ ~flushRejected /\ ~unhandled
  /\ (handler # "none" /\ calls # <<>> /\ Quiescent /\ ~clearCalled) =>
       \A i \in 1..(nextItem - 1) : addedAt[i].n = 0 => i \in Range(Delivered)

\* C14 witness: two items were added while no handler was registered, and the
\* first flush after registerHandler passed both to the handler.
C14_Witness ==
  /\ handler # "none"
  /\ nextItem >= 3
  /\ addedAt[1].n = 0 /\ addedAt[2].n = 0
  /\ calls # <<>>
  /\ calls[1].batch = <<1, 2>>
  /\ Quiescent

\* The drain has run to completion: no flush is in progress and no invocation is
\* pending; in the chunked revision no re-run is queued, the buffer is empty and,
\* without a clear() call, every item added has been passed to the handler.  (In
\* the single-active revision a chain of re-runs may instead have used up the
\* MaxCalls invocations the model allows.)
C15_DrainCompleted ==
  IF variant = "chunked"
    THEN /\ ~flushing /\ ~rerun /\ PendingCalls = {}
         /\ queue = <<>>
         /\ ~clearCalled => \A i \in 1..(nextItem - 1) : i \in Range(Delivered)
    ELSE (~flushing /\ PendingCalls = {}) \/ Len(calls) = MaxCalls

\* C15: stopAutoFlush() changes nothing but the timer - the position of the
\* flush in progress, the flags, the buffer and the invocations stay as they are -
\* and a flush in progress with the timer stopped still runs to completion: the
\* pending invocation completes, every remaining chunk is delivered and the engine
\* returns to Idle.
C15_StopDoesNotCancelFlush ==
  /\ [][ timer'.live < timer.live =>
           UNCHANGED <<queue, handler, flushing, flushQueued, pc, exc, rerun, calls>> ]_vars
  /\ (timer.live = 0 /\ flushing) ~> C15_DrainCompleted

\* C15 witness: a drain started by a timer tick is on its second chunk while the
\* timer is stopped: stopAutoFlush() was called during that drain, and the drain
\* went on.
C15_Witness ==
  /\ origin = "timer"
  /\ timer.live = 0
  /\ flushing
  /\ Len(calls) = 2
  /\ calls[1].status = "ok"
  /\ calls[2].batch = <<2>>
  /\ addedAt[2].n = 0

(* ----------------------------- timer claims ---------------------------- *)

\* C16: stopAutoFlush() leaves no interval running; while this.timer is unset no
\* drain is started by a timer callback; only registerHandler makes an
\* interval run again, and every registerHandler call leaves exactly one running;
\* stopAutoFlush() with no timer running changes nothing.
C16_StopHaltsTimerUntilRegister ==
  [][ /\ (timer.handle /\ ~timer'.handle) => timer'.live = 0
      /\ ~timer.handle => ~(~flushing /\ flushing' /\ origin' = "timer")
      /\ (timer.live = 0 /\ timer'.live > 0) => \E h \in Handlers : RegisterHandler(h)
      /\ (\E h \in Handlers : RegisterHandler(h)) => (timer'.handle /\ timer'.live = 1)
      /\ (StopAutoFlush /\ ~timer.handle) => timer' = timer ]_vars

\* C16 witness: a drain started by the timer has ended, the timer was stopped,
\* and an item added after that drain's last invocation waits in the buffer with
\* nothing running that would deliver it.
C16_Witness ==
  /\ origin = "timer"
  /\ ~timer.handle
  /\ Quiescent
  /\ calls # <<>>
  /\ queue # <<>>
  /\ \A i \in Range(queue) : addedAt[i].n = Len(calls) /\ ~addedAt[i].during

\* C17: in every reachable state at most one interval is running, this.timer is
\* set exactly when one is, and none runs before a handler is registered.
C17_AtMostOneTimer ==
  /\ timer.live <= 1
  /\ timer.handle <=> timer.live = 1
  /\ timer.live = 1 => handler # "none"

\* C17 witness: a handler was registered a second time while the timer was
\* running, and a drain started by a timer tick invoked the second handler.
C17_Witness ==
  /\ handler = "h2"
  /\ timer.live = 1
  /\ origin = "timer"
  /\ calls # <<>>
  /\ calls[Len(calls)].h = "h2"
  /\ calls[Len(calls)].status = "pending"

\* C18: a handler failure does not stop the auto-flush timer: only
\* stopAutoFlush() and registerHandler() ever change the timer, so it stays active
\* through every failure; and after a failure a timer tick that finds the engine
\* idle with items in the buffer starts a drain that passes them to the handler.
C18_FailureKeepsTimer ==
  [][ /\ timer' # timer => (StopAutoFlush \/ \E h \in Handlers : RegisterHandler(h))
      /\ ( /\ Tick
           /\ \E n \in DOMAIN calls : calls[n].status = "failed"
           /\ handler # "none" /\ ~flushing /\ queue # <<>> )
         => ( /\ Len(calls') = Len(calls) + 1
              /\ calls'[Len(calls')].batch = DequeueBatch(queue, batchSize).batch
              /\ origin' = "timer" ) ]_vars

\* C18 witness: the only invocation so far was made by a timer-triggered flush
\* and failed; the drain has ended, the timer is still running and an item added
\* after the failure waits in the buffer for the next tick.
C18_Witness ==
  /\ origin = "timer"
  /\ Len(calls) = 1
  /\ calls[1].status = "failed"
  /\ Quiescent
  /\ timer.live = 1
  /\ queue # <<>>
  /\ \A i \in Range(queue) : addedAt[i].n = 1 /\ ~addedAt[i].during

(* -------------------- retention and retry after failure ---------------- *)

\* C19 (as claimed): without a clear() call, an item leaves the buffer only after
\* an invocation that received it completed successfully, and the items of a
\* failed invocation are still in the buffer or were passed to the handler again
\* by a later invocation.
C19_RetainedUntilSuccess ==
  ~clearCalled =>
    /\ \A i \in 1..(nextItem - 1) :
         \/ i \in Range(queue)
         \/ \E n \in DOMAIN calls : calls[n].status = "ok" /\ i \in Range(calls[n].batch)
    /\ \A n \in DOMAIN calls :
         calls[n].status = "failed" =>
           \A i \in Range(calls[n].batch) :
             \/ i \in Range(queue)
             \/ \E m \in DOMAIN calls : m > n /\ i \in Range(calls[m].batch)

\* C20 (as claimed): a batch whose invocation failed is never passed to the
\* handler again, and once the flush that reported the failure has ended none of
\* its items is in the buffer.
C20_NeverRetries ==
  \A n \in DOMAIN calls :
    calls[n].status = "failed" =>
      /\ \A m \in DOMAIN calls :
           m > n => Range(calls[m].batch) \cap Range(calls[n].batch) = {}
      /\ ~flushing => Range(queue) \cap Range(calls[n].batch) = {}

\* C20, for onError callbacks that return: the property holds there.
C20_ReturningNeverRetries ==
  onError # "throws" => C20_NeverRetries

(* --------------------------------- C21 --------------------------------- *)

\* C21: getBatch() gives its caller exactly the buffered items in insertion
\* order and changes nothing of the engine (buffer, flags, handler, timer), and
\* the array it gave is independent of the buffer: a write by the caller to
\* that array leaves the buffer alone, and no later step of the engine alters
\* what the caller reads in it.
C21_GetBatchIsIndependentCopy ==
  [][ /\ GetBatch =>
           /\ ReturnedItems' = queue
           /\ UNCHANGED <<queue, handler, timer, flushing, flushQueued, pc, rerun, calls>>
      /\ CallerPops => UNCHANGED <<queue, handler, timer, flushing, flushQueued, pc, rerun, calls>>
      /\ returned' = returned => ReturnedItems' = ReturnedItems ]_vars

\* C21 witness: the caller holds the two items that were buffered when it called
\* getBatch(), while the buffer has since received a third item.
C21_Witness ==
  /\ ReturnedItems = <<1, 2>>
  /\ queue = <<1, 2, 3>>
  /\ calls = <<>>

(* --------------------------------- C22 --------------------------------- *)

\* The buffer q after add(items[1]), add(items[2]), ... in order.
RECURSIVE AddEach(_, _)
AddEach(q, items) ==
  IF items = <<>> THEN q ELSE AddEach(Push(q, Head(items)), Tail(items))

\* C22: addMany(items) leaves the engine in exactly the state that calling add
\* on each element of items, in order, would reach: the buffer is the one the
\* adds build and nothing else changes; addMany([]) changes nothing at all.
C22_AddManyIsRepeatedAdd ==
  [][ \A n \in 0..MaxAddMany :
        AddMany(n) =>
          /\ queue' = AddEach(queue, Fresh(n))
          /\ n = 0 => queue' = queue
          /\ UNCHANGED <<handler, timer, flushing, flushQueued, pc, exc, rerun, calls,
                         errors>> ]_vars

\* C22 witness: addMany of two items onto a buffer that held one, with no flush
\* in between: the three items are buffered in the order of their addition.
C22_Witness ==
  /\ queue = <<1, 2, 3>>
  /\ addedAt[2] = addedAt[3]
  /\ calls = <<>>
  /\ handler = "none"

(* --------------------------------- C23 --------------------------------- *)

\* C23: clear() empties the buffer without invoking the handler and leaves the
\* flushing flag, the pending-request flag, the handler and the timer as they
\* were; the batch of an invocation already started is never altered; and every
\* invocation is given items that are in the buffer when it starts, so an item
\* that clear() discarded (items are never added twice) is passed to no
\* invocation that starts afterwards.
C23_ClearDiscardsSilently ==
  [][ /\ Clear =>
           /\ queue' = <<>>
           /\ UNCHANGED <<calls, errors, flushing, flushQueued, handler, timer, pc, rerun>>
      /\ \A n \in DOMAIN calls : n \in DOMAIN calls' /\ calls'[n].batch = calls[n].batch
      /\ Len(calls') > Len(calls) =>
           Range(calls'[Len(calls')].batch) \subseteq Range(queue) ]_vars

\* C23 witness (chunked revision): item 2, added while the invocation for item 1
\* was pending, was discarded by clear(); the invocation for item 1 kept its
\* batch and the next invocation of the same drain got item 3 only.
C23_Witness ==
  /\ variant = "chunked"
  /\ clearCalled
  /\ Len(calls) = 2
  /\ calls[1].batch = <<1>>
  /\ calls[2].batch = <<3>>
  /\ addedAt[2].pending
  /\ queue = <<>>

(* --------------------------------- C24 --------------------------------- *)

\* C24: a flush request, manual or from the timer, that arrives while the
\* flushing flag is true sets the pending-request flag and returns at once: it
\* starts no handler invocation, removes no item, leaves the flushing flag true
\* and does not touch the suspended flush.
C24_RequestWhileFlushingIsCoalesced ==
  [][ ((Flush \/ Tick) /\ flushing) =>
         /\ flushQueued'
         /\ UNCHANGED <<queue, calls, errors, flushing, pc, exc, rerun, handler, timer>> ]_vars

\* C24 witness: an invocation is pending, a request was coalesced meanwhile (the
\* flag is set), and the item added during the flush is still in the buffer.
C24_Witness ==
  /\ pc = "handler"
  /\ flushing
  /\ flushQueued
  /\ Len(calls) = 1
  /\ calls[1].batch = <<1>>
  /\ 2 \in Range(queue)

(* --------------------------------- C25 --------------------------------- *)

\* C25 (as claimed): when a flush during which a request was coalesced
\* finishes, the pending-request flag is cleared and the flush algorithm runs
\* again at once (no timer tick is needed, so a stopped timer does not matter),
\* and the items that arrived during the flush are delivered by it: the step
\* that clears the flag loses none of them, each is still buffered for the
\* re-run or already passed to the handler.
C25_CoalescedRerunDelivers ==
  [][ (flushQueued /\ ~flushQueued') =>
         /\ (variant = "chunked" => rerun')
         /\ \A i \in Range(queue) :
              addedAt[i].during => i \in Range(queue') \cup Range(Flatten(calls')) ]_vars

\* C25, chunked revision only: the same statement holds.
C25_ChunkedCoalescedRerunDelivers ==
  [][ (variant = "chunked" /\ flushQueued /\ ~flushQueued') =>
         /\ rerun'
         /\ \A i \in Range(queue) :
              addedAt[i].during => i \in Range(queue') \cup Range(Flatten(calls')) ]_vars

\* C25, chunked revision only: once the engine is at rest nothing that arrived
\* during a flush is left undelivered, whatever the timer's state, unless the
\* user cleared the buffer.
C25_ChunkedArrivalsDelivered ==
  (variant = "chunked" /\ Quiescent /\ ~clearCalled) =>
     /\ ~flushQueued
     /\ \A i \in 1..(nextItem - 1) : addedAt[i].during => i \in Range(Delivered)

(* --------------------------------- C26 --------------------------------- *)

\* The suspended flush() takes its next step after an invocation that failed
\* while items are still queued (chunked revision, batchSize configured).
ResumesAfterFailedChunk ==
  /\ variant = "chunked"
  /\ batchSize >= 1
  /\ pc = "resume"
  /\ calls[Len(calls)].status = "failed"
  /\ queue # <<>>
  /\ (pc' # "resume" \/ calls' # calls)

\* C26 (as claimed): with batchSize configured a handler failure on one chunk
\* does not abort the drain loop: the loop's next step passes the next chunk
\* (the first batchSize queued items) to the handler with the flush still in
\* progress, and a chunk leaves the queue only when no invocation is pending.
C26_FailureDoesNotAbortDrain ==
  [][ /\ ResumesAfterFailedChunk =>
           /\ Len(calls') = Len(calls) + 1
           /\ calls'[Len(calls')].batch = Take(queue, batchSize)
           /\ queue' = Drop(queue, batchSize)
           /\ flushing'
      /\ (Len(calls') > Len(calls) /\ variant = "chunked") => PendingCalls = {} ]_vars

\* C26, instances whose onError callback, when given, returns normally: the
\* same statement holds.
C26_ReturningFailureDoesNotAbortDrain ==
  [][ /\ (ResumesAfterFailedChunk /\ onError # "throws") =>
           /\ Len(calls') = Len(calls) + 1
           /\ calls'[Len(calls')].batch = Take(queue, batchSize)
           /\ queue' = Drop(queue, batchSize)
           /\ flushing'
      /\ (Len(calls') > Len(calls) /\ variant = "chunked") => PendingCalls = {} ]_vars

(* --------------------------------- C27 --------------------------------- *)

\* The items added so far, in the order of their addition.
AddedSoFar == [i \in 1..(nextItem - 1) |-> i]

\* C27 (as claimed): with batchSize unset the two revisions of flush are
\* equivalent: driven by the same adds, flush requests, ticks and handler
\* completions they pass the same items to the handler in the same order, and
\* in both every added item is delivered.  Items being delivered from the front
\* of the buffer, both revisions then keep the same account of the producers'
\* sequence: whenever an instance of either revision with a handler is at rest
\* (and the user discarded nothing), what it has delivered followed by what it
\* still buffers is exactly the sequence of the items added.
C27_VariantsEquivalent ==
  (batchSize = 0 /\ Quiescent /\ ~NoHandler /\ ~clearCalled) =>
     Delivered \o queue = AddedSoFar

\* C27, chunked revision only: the account holds.
C27_ChunkedAccount ==
  (variant = "chunked" /\ batchSize = 0 /\ Quiescent /\ ~NoHandler /\ ~clearCalled) =>
     Delivered \o queue = AddedSoFar

(* --------------------------------- C28 --------------------------------- *)

\* q is what remains of p after a prefix of p was removed.
IsSuffixOf(q, p) == Len(q) <= Len(p) /\ q = Drop(p, Len(p) - Len(q))

\* C28 (as claimed): apart from clear(), the buffer loses items only when the
\* flush algorithm removes a prefix of it, and the prefix removed is exactly the
\* batch passed to the handler (the latest invocation's batch: the whole buffer,
\* or one chunk of at most batchSize items); add, addMany, getBatch,
\* registerHandler and stopAutoFlush remove nothing.
C28_OnlyFlushRemovesItsBatch ==
  [][ (~(Range(queue) \subseteq Range(queue')) /\ ~Clear) =>
         /\ calls' # <<>>
         /\ IsSuffixOf(queue', queue)
         /\ Take(queue, Len(queue) - Len(queue')) = calls'[Len(calls')].batch
         /\ (batchSize >= 1 => Len(queue) - Len(queue') <= batchSize) ]_vars

\* C28, chunked revision only: the same statement holds, and the batch removed
\* is the one passed to the handler by the very step that removes it.
C28_ChunkedOnlyFlushRemovesItsBatch ==
  [][ (variant = "chunked" /\ ~(Range(queue) \subseteq Range(queue')) /\ ~Clear) =>
         /\ Len(calls') = Len(calls) + 1
         /\ IsSuffixOf(queue', queue)
         /\ Take(queue, Len(queue) - Len(queue')) = calls'[Len(calls')].batch
         /\ (batchSize >= 1 => Len(queue) - Len(queue') <= batchSize) ]_vars

(* --------------------------------- C29 --------------------------------- *)

\* C29: the engine has one handler at a time.  Every invocation goes to the
\* handler registered at the moment the invocation starts, so once
\* registerHandler(h2) has replaced h1 every invocation that starts afterwards,
\* the later chunks of a drain in progress included, goes to h2 and none to h1;
\* a registration invokes nothing; and no operation unregisters the handler.
C29_InvocationsGoToCurrentHandler ==
  [][ /\ Len(calls') > Len(calls) =>
           /\ handler # "none"
           /\ calls'[Len(calls')].h = handler
           /\ handler' = handler
      /\ handler' # handler => (handler' # "none" /\ calls' = calls /\ queue' = queue)
      /\ \A n \in DOMAIN calls : n \in DOMAIN calls' /\ calls'[n].h = calls[n].h ]_vars

\* C29 witness (chunked revision): h2 replaced h1 while the invocation of h1 for
\* item 1 was pending; the same drain then passed its next batch, item 2, which
\* had arrived during the flush, to h2.
C29_Witness ==
  /\ variant = "chunked"
  /\ handler = "h2"
  /\ Len(calls) = 2
  /\ calls[1].h = "h1" /\ calls[1].batch = <<1>>
  /\ calls[2].h = "h2" /\ calls[2].batch = <<2>>
  /\ addedAt[2].pending

(* --------------------------------- C30 --------------------------------- *)

\* q begins with the sequence p.
StartsWith(q, p) == Len(p) <= Len(q) /\ SubSeq(q, 1, Len(p)) = p

\* C30: as long as a handler invocation has not completed the engine stays in
\* the flush: the flushing flag stays true, no step starts another invocation,
\* a flush() or a tick only sets the pending-request flag, no buffered item is
\* removed or delivered (only clear() empties the buffer), and add and addMany
\* still append their items.  A handler that never completes therefore keeps
\* the flag true and the later items undelivered forever.
C30_PendingHandlerBlocksDelivery ==
  [][ (pc = "handler" /\ pc' = "handler") =>
         /\ flushing /\ flushing'
         /\ calls' = calls
         /\ Clear \/ StartsWith(queue', queue)
         /\ (Flush \/ Tick) => (flushQueued' /\ queue' = queue)
         /\ nextItem' > nextItem =>
              queue' = queue \o [i \in 1..(nextItem' - nextItem) |-> nextItem + i - 1] ]_vars

\* C30 witness: the invocation for item 1 is still pending; items 2 and 3, added
\* afterwards, wait in the buffer, a later request was only recorded, and the
\* timer is running.
C30_Witness ==
  /\ pc = "handler"
  /\ flushing
  /\ Len(calls) = 1
  /\ calls[1].status = "pending"
  /\ calls[1].batch = <<1>>
  /\ queue = <<2, 3>>
  /\ flushQueued
  /\ timer.live = 1

(* --------------------------------- C31 --------------------------------- *)

\* C31: both coordination flags start false, and in every reachable state the
\* pending-request flag is true only while the flushing flag is true: whenever
\* the engine is idle no coalesced request is left recorded.
C31_RequestFlagOnlyWhileFlushing ==
  /\ flushQueued => flushing
  /\ (calls = <<>> /\ handler = "none") => (~flushing /\ ~flushQueued)

\* C31 witness: a request was coalesced during a flush whose invocation has
\* completed; the flush is about to end with the request still recorded.
C31_Witness ==
  /\ pc = "resume"
  /\ flushing
  /\ flushQueued
  /\ Len(calls) = 1
  /\ calls[1].status = "ok"
  /\ queue # <<>>

(* --------------------------------- C32 --------------------------------- *)

\* C32 (as claimed): the handler is never invoked with an empty batch, whoever
\* started the flush and whichever chunk of a drain it is, for every batchSize
\* value the constructor accepts.
C32_NoEmptyBatch ==
  \A n \in DOMAIN calls : calls[n].batch # <<>>

\* C32, batchSize absent or an integer >= 1: no batch is empty.
C32_ValidSizeNoEmptyBatch ==
  (batchSizeDen = 1 /\ batchSize >= 0) => \A n \in DOMAIN calls : calls[n].batch # <<>>

(* --------------------------------- C33 --------------------------------- *)

\* C33 (as claimed): every iteration of the drain loop (chunked revision: each
\* step that passes a batch to the handler) removes at least one item from the
\* buffer, for every batchSize value the constructor accepts, so that the loop
\* terminates with an empty buffer once the producers stop and the invocations
\* complete.
C33_IterationRemovesAnItem ==
  [][ (variant = "chunked" /\ Len(calls') > Len(calls)) =>
         Len(queue') < Len(queue) ]_vars

\* C33, batchSize absent or an integer >= 1: every iteration removes an item.
C33_ValidSizeIterationRemovesAnItem ==
  [][ (variant = "chunked" /\ batchSizeDen = 1 /\ batchSize >= 0
       /\ Len(calls') > Len(calls)) =>
         Len(queue') < Len(queue) ]_vars

\* C33, batchSize absent or an integer >= 1, under the event loop's fairness: a
\* drain of the chunked revision ends (the suspended flush() returns).
C33_ValidSizeDrainTerminates ==
  (variant = "chunked" /\ pc # "idle") ~> (pc = "idle")

(* --------------------------------- C34 --------------------------------- *)

\* C34 (as claimed): the chain of self-scheduled re-runs of flush ends in a
\* quiescent state with flushing = false, the pending-request flag false, the
\* buffer empty and no re-run scheduled: the step that brings the engine to
\* rest (nothing running, nothing queued to run) leaves exactly that state.
C34_ChainEndsEmpty ==
  [][ (~Quiescent /\ Quiescent') =>
         (~flushing' /\ ~flushQueued' /\ ~rerun' /\ queue' = <<>>) ]_vars

\* C34, instances whose onError callback, when given, returns normally: the
\* chain ends in that state.
C34_ReturningChainEndsEmpty ==
  [][ (onError # "throws" /\ ~Quiescent /\ Quiescent') =>
         (~flushing' /\ ~flushQueued' /\ ~rerun' /\ queue' = <<>>) ]_vars

\* C34, under the event loop's fairness: the chain is finite, the engine always
\* comes to rest (within the number of invocations the runs allow).
C34_ChainEnds ==
  (~Quiescent) ~> (Quiescent \/ Len(calls) = MaxCalls)

(* --------------------------------- C35 --------------------------------- *)

\* The suspended flush() takes its next step while the exception of a throwing
\* onError, raised while it reported a handler failure, is propagating.
ResumesAfterOnErrorThrew ==
  /\ onError = "throws"
  /\ pc = "resume"
  /\ exc
  /\ (pc' # "resume" \/ calls' # calls)

\* C35 (as claimed): if the onError callback throws while reporting a handler
\* failure the engine still leaves the flush: the flushing flag is reset (the
\* engine is idle, or a re-run has started a new invocation at once), the items
\* not yet delivered stay in the buffer for a later flush, and no item is
\* delivered twice as a result: no invocation receives an item that an earlier
\* invocation has received.
C35_ThrowingOnErrorIsSurvived ==
  [][ onError = "throws" =>
        /\ ResumesAfterOnErrorThrew =>
             /\ queue' = queue
             /\ ~flushing' \/ Len(calls') > Len(calls)
        /\ Len(calls') > Len(calls) =>
             Range(calls'[Len(calls')].batch) \cap Range(Delivered) = {} ]_vars

\* C35, chunked revision only: the same statement holds, and the items left in
\* the queue are delivered by the flush() that finally queues as a microtask.
C35_ChunkedThrowingOnErrorIsSurvived ==
  [][ (onError = "throws" /\ variant = "chunked") =>
        /\ ResumesAfterOnErrorThrew =>
             /\ queue' = queue
             /\ ~flushing'
             /\ queue # <<>> => rerun'
        /\ Len(calls') > Len(calls) =>
             Range(calls'[Len(calls')].batch) \cap Range(Delivered) = {} ]_vars

====
